---- MODULE Spec2Model ----
(***************************************************************************)
(* Google Docs MCP server (src/main.py): the authenticated request         *)
(* executor make_api_request and the nine tools built on it.               *)
(*                                                                         *)
(* Strings the code builds with f-strings are sequences of their parts     *)
(* (a literal part, str() of a value, ...), so "the text contains the      *)
(* status" is "one part is ToString(status)".  A MIME type is the sequence *)
(* of its tokens, <<"application", "/", "pdf">>, so str.startswith is a    *)
(* prefix test.  A Python value the executor can return is a tagged record *)
(* [t, d, len]: a dict (t = "dict", d its mapping), bytes (t = "bytes",    *)
(* len its length) or another JSON value without a .get method.            *)
(***************************************************************************)
EXTENDS Integers, Sequences, FiniteSets, TLC

VARIABLES
    env,       \* the process environment: a mapping of variable names
    tool,      \* the tool invoked last ("none" before the first invocation)
    args,      \* its arguments
    resps,     \* what the remote service answers to its 1st, 2nd call
    result,    \* the mapping the tool returned
    raised,    \* TRUE when a fault left the tool instead of a mapping
    execLog    \* one entry per make_api_request invocation, in order

vars == <<env, tool, args, resps, result, raised, execLog>>

----------------------------------------------------------------------------
(* Bounds of the model *)

MaxOver == 2     \* max_results ranges over -MaxOver..MaxOver and 1000 +- MaxOver
MaxLen == 2      \* byte length of a response payload: 0..MaxLen
MaxOcc == 2      \* occurrencesChanged in a reply: 0..MaxOcc
MaxIndex == 1    \* index, start_index, end_index: 0..MaxIndex

----------------------------------------------------------------------------
(* Python values *)

EmptyDict == [k \in {} |-> "None"]

None == "None"

JDict(d) == [t |-> "dict", d |-> d, len |-> 0]
JNull == [t |-> "null", d |-> EmptyDict, len |-> 0]
JNumber == [t |-> "number", d |-> EmptyDict, len |-> 0]
Bytes(n) == [t |-> "bytes", d |-> EmptyDict, len |-> n]
NotJson == [t |-> "invalid", d |-> EmptyDict, len |-> 0]

\* dict.get(k, default)
Get(d, k, default) == IF k \in DOMAIN d THEN d[k] ELSE default

\* {**d, k: v}
With(d, k, v) == [x \in DOMAIN d \cup {k} |-> IF x = k THEN v ELSE d[x]]

Min(a, b) == IF a <= b THEN a ELSE b

\* str.startswith
StartsWith(s, prefix) ==
    /\ Len(s) >= Len(prefix)
    /\ SubSeq(s, 1, Len(prefix)) = prefix

\* ",".join(keys)
RECURSIVE Join(_)
Join(ks) ==
    IF Len(ks) = 0 THEN <<>>
    ELSE IF Len(ks) = 1 THEN <<ks[1]>>
    ELSE <<ks[1], ",">> \o Join(Tail(ks))

----------------------------------------------------------------------------
(* Configuration *)

DOCS_API_BASE == "https://docs.googleapis.com/v1"
DRIVE_API_BASE == "https://www.googleapis.com/drive/v3"
TOKEN_VAR == "GOOGLE_ACCESS_TOKEN"
MAX_PAGE_SIZE == 1000

\* the environments a process can start in: variable unset, empty, set
Envs == { EmptyDict, [GOOGLE_ACCESS_TOKEN |-> ""], [GOOGLE_ACCESS_TOKEN |-> "tok"] }

\* the except clauses of the tools name Exception: every class raised here
\* derives from it
ExceptionClasses == {"Exception", "ValueError", "AttributeError", "TypeError"}

Raise(cls, text) == [cls |-> cls, text |-> text]
NoExc == Raise("", <<>>)

\* os.getenv + `if not token: raise ValueError`
get_access_token(e) ==
    IF TOKEN_VAR \notin DOMAIN e \/ e[TOKEN_VAR] = ""
    THEN [raised |-> TRUE,
          exc |-> Raise("ValueError",
                        <<"Missing GOOGLE_ACCESS_TOKEN environment variable. ",
                          "Please set it in your .env file or environment.">>),
          val |-> ""]
    ELSE [raised |-> FALSE, exc |-> NoExc, val |-> e[TOKEN_VAR]]

----------------------------------------------------------------------------
(* The remote service's answers *)

CT_NONE == <<>>
CT_JSON == <<"application", "/", "json">>
CT_JSON_UTF8 == <<"application", "/", "json", ";", " ", "charset=UTF-8">>
CT_HTML == <<"text", "/", "html">>

\* response.raise_for_status() passes: the status is 2xx
is_success(status) == 200 <= status /\ status <= 299

Fault(cause) ==
    [kind |-> "fault", cause |-> cause, status |-> 0, ctype |-> CT_NONE,
     text |-> "", len |-> 0, json |-> NotJson]

Http(status, ctype, text, len, json) ==
    [kind |-> "http", cause |-> "", status |-> status, ctype |-> ctype,
     text |-> text, len |-> len, json |-> json]

----------------------------------------------------------------------------
(* Authenticated request executor *)

\* sent: the number of outbound calls the invocation made; ok: it returned
LogEntry(method, url, kwargs, sent, ok) ==
    [method |-> method, url |-> url, kwargs |-> kwargs, sent |-> sent, ok |-> ok]

ExecRaise(exc, entry) == [raised |-> TRUE, exc |-> exc, val |-> JNull, entry |-> entry]
ExecReturn(val, entry) == [raised |-> FALSE, exc |-> NoExc, val |-> val, entry |-> entry]

\* Mutant: a transport fault is retried once before giving up.
make_api_request_retry(e, method, url, kwargs, resp) ==
    LET token == get_access_token(e)
        called(n, ok) == LogEntry(method, url, kwargs, n, ok)
    IN  IF token.raised
        THEN ExecRaise(token.exc, LogEntry(method, url, kwargs, 0, FALSE))
        ELSE IF resp.kind = "fault"
        THEN ExecRaise(Raise("Exception", <<"Request failed: ", resp.cause>>),
                       called(2, FALSE))
        ELSE IF ~is_success(resp.status)
        THEN ExecRaise(Raise("Exception",
                             <<"Google API error ", ToString(resp.status), ": ",
                               resp.text>>),
                       called(1, FALSE))
        ELSE IF StartsWith(resp.ctype, <<"application", "/">>)
        THEN ExecReturn(Bytes(resp.len), called(1, TRUE))
        ELSE IF resp.json = NotJson
        THEN ExecRaise(Raise("Exception", <<"Request failed: ", "JSONDecodeError">>),
                       called(1, FALSE))
        ELSE ExecReturn(resp.json, called(1, TRUE))

make_api_request(e, method, url, kwargs, resp) ==
    LET token == get_access_token(e)
        called(ok) == LogEntry(method, url, kwargs, 1, ok)
    IN  IF token.raised
        THEN ExecRaise(token.exc, LogEntry(method, url, kwargs, 0, FALSE))
        ELSE IF resp.kind = "fault"
        THEN ExecRaise(Raise("Exception", <<"Request failed: ", resp.cause>>),
                       called(FALSE))
        ELSE IF ~is_success(resp.status)
        THEN ExecRaise(Raise("Exception",
                             <<"Google API error ", ToString(resp.status), ": ",
                               resp.text>>),
                       called(FALSE))
        ELSE IF StartsWith(resp.ctype, <<"application", "/">>)
        THEN ExecReturn(Bytes(resp.len), called(TRUE))
        ELSE IF resp.json = NotJson
        THEN ExecRaise(Raise("Exception", <<"Request failed: ", "JSONDecodeError">>),
                       called(FALSE))
        ELSE ExecReturn(resp.json, called(TRUE))

----------------------------------------------------------------------------
(* Tool adapters *)

\* what leaves a tool: a returned mapping, or a fault (raised)
Returned(value, log) == [raised |-> FALSE, value |-> value, log |-> log]

\* Mutant: the handler names the executor's own failures only, so the
\* ValueError of a missing credential passes through.
CatchesExecutorOnly(exc) == exc.cls = "Exception"

\* `except Exception as e: return {"error": str(e), **context}`
Catches(exc) == exc.cls \in ExceptionClasses

Except(exc, context, log) ==
    IF Catches(exc)
    THEN Returned(With(context, "error", exc.text), log)
    ELSE [raised |-> TRUE, value |-> EmptyDict, log |-> log]

\* <value>.get(...) on a value that is no dict
NoGet(v) == Raise("AttributeError", <<"object has no attribute 'get'">>)

list_documents(e, max_results, rs) ==
    LET params == [q |-> "mimeType='application/vnd.google-apps.document'",
                   pageSize |-> Min(max_results, MAX_PAGE_SIZE),
                   fields |-> "files(id,name,createdTime,modifiedTime,webViewLink,thumbnailLink,owners)"]
        r == make_api_request(e, "GET", <<DRIVE_API_BASE, "/files">>,
                              [params |-> params], rs[1])
        context == [message |-> <<"Failed to list documents">>]
        files == Get(r.val.d, "files", <<>>)
    IN  IF r.raised THEN Except(r.exc, context, <<r.entry>>)
        ELSE IF r.val.t # "dict" THEN Except(NoGet(r.val), context, <<r.entry>>)
        ELSE Returned([files |-> files,
                       count |-> Len(files),
                       message |-> <<"Successfully listed ", ToString(Len(files)),
                                     " documents">>],
                      <<r.entry>>)

\* Mutant: the handler reports a fixed text and drops the identifier.
get_document_generic(e, document_id, rs) ==
    LET r == make_api_request(e, "GET",
                              <<DOCS_API_BASE, "/documents/", document_id>>,
                              EmptyDict, rs[1])
        context == [message |-> <<"Failed to retrieve document ", document_id>>]
    IN  IF r.raised
        THEN Except(Raise(r.exc.cls, <<"Failed to retrieve document">>), context,
                    <<r.entry>>)
        ELSE IF r.val.t # "dict" THEN Except(NoGet(r.val), context, <<r.entry>>)
        ELSE Returned([documentId |-> Get(r.val.d, "documentId", None),
                       title |-> Get(r.val.d, "title", None),
                       body |-> Get(r.val.d, "body", None),
                       message |-> <<"Successfully retrieved document: ",
                                     Get(r.val.d, "title", None)>>],
                      <<r.entry>>)

get_document(e, document_id, rs) ==
    LET r == make_api_request(e, "GET",
                              <<DOCS_API_BASE, "/documents/", document_id>>,
                              EmptyDict, rs[1])
        context == [document_id |-> document_id,
                    message |-> <<"Failed to retrieve document ", document_id>>]
    IN  IF r.raised THEN Except(r.exc, context, <<r.entry>>)
        ELSE IF r.val.t # "dict" THEN Except(NoGet(r.val), context, <<r.entry>>)
        ELSE Returned([documentId |-> Get(r.val.d, "documentId", None),
                       title |-> Get(r.val.d, "title", None),
                       body |-> Get(r.val.d, "body", None),
                       message |-> <<"Successfully retrieved document: ",
                                     Get(r.val.d, "title", None)>>],
                      <<r.entry>>)

\* Mutant: when the metadata fetch fails the created document is reported,
\* without its link, as a success.
create_document_partial(e, title, rs) ==
    LET r1 == make_api_request(e, "POST", <<DOCS_API_BASE, "/documents">>,
                               [json |-> [title |-> title]], rs[1])
        doc_id == Get(r1.val.d, "documentId", None)
        r2 == make_api_request(e, "GET", <<DRIVE_API_BASE, "/files/", doc_id>>,
                               [params |-> [fields |-> "webViewLink"]], rs[2])
        context == [title |-> title,
                    message |-> <<"Failed to create document '", title, "'">>]
        created(link) == [documentId |-> doc_id,
                          title |-> Get(r1.val.d, "title", None),
                          webViewLink |-> link,
                          message |-> <<"Successfully created document: ", title>>]
    IN  IF r1.raised THEN Except(r1.exc, context, <<r1.entry>>)
        ELSE IF r1.val.t # "dict" THEN Except(NoGet(r1.val), context, <<r1.entry>>)
        ELSE IF r2.raised \/ r2.val.t # "dict"
        THEN Returned(created(None), <<r1.entry, r2.entry>>)
        ELSE Returned(created(Get(r2.val.d, "webViewLink", None)),
                      <<r1.entry, r2.entry>>)

create_document(e, title, rs) ==
    LET r1 == make_api_request(e, "POST", <<DOCS_API_BASE, "/documents">>,
                               [json |-> [title |-> title]], rs[1])
        doc_id == Get(r1.val.d, "documentId", None)
        r2 == make_api_request(e, "GET", <<DRIVE_API_BASE, "/files/", doc_id>>,
                               [params |-> [fields |-> "webViewLink"]], rs[2])
        context == [title |-> title,
                    message |-> <<"Failed to create document '", title, "'">>]
    IN  IF r1.raised THEN Except(r1.exc, context, <<r1.entry>>)
        ELSE IF r1.val.t # "dict" THEN Except(NoGet(r1.val), context, <<r1.entry>>)
        ELSE IF r2.raised THEN Except(r2.exc, context, <<r1.entry, r2.entry>>)
        ELSE IF r2.val.t # "dict"
        THEN Except(NoGet(r2.val), context, <<r1.entry, r2.entry>>)
        ELSE Returned([documentId |-> doc_id,
                       title |-> Get(r1.val.d, "title", None),
                       webViewLink |-> Get(r2.val.d, "webViewLink", None),
                       message |-> <<"Successfully created document: ", title>>],
                      <<r1.entry, r2.entry>>)

BatchUpdateUrl(document_id) == <<DOCS_API_BASE, "/documents/", document_id, ":batchUpdate">>

insert_text(e, document_id, text, index, rs) ==
    LET requests_data ==
            [requests |-> <<[insertText |-> [location |-> [index |-> index],
                                             text |-> text]]>>]
        r == make_api_request(e, "POST", BatchUpdateUrl(document_id),
                              [json |-> requests_data], rs[1])
        context == [document_id |-> document_id,
                    message |-> <<"Failed to insert text into document ", document_id>>]
    IN  IF r.raised THEN Except(r.exc, context, <<r.entry>>)
        ELSE IF r.val.t # "dict" THEN Except(NoGet(r.val), context, <<r.entry>>)
        ELSE Returned([documentId |-> document_id,
                       message |-> <<"Successfully inserted text at position ",
                                     ToString(index)>>,
                       replies |-> Get(r.val.d, "replies", <<>>)],
                      <<r.entry>>)

\* Mutant: the count is read from the last reply, and without a default.
OccurrencesOfLast(replies) ==
    IF Len(replies) > 0 /\ "replaceAllText" \in DOMAIN replies[Len(replies)]
    THEN Get(replies[Len(replies)]["replaceAllText"], "occurrencesChanged", 1)
    ELSE 0

\* the count of the first reply, 0 when a key is missing
Occurrences(replies) ==
    IF Len(replies) > 0 /\ "replaceAllText" \in DOMAIN replies[1]
    THEN Get(replies[1]["replaceAllText"], "occurrencesChanged", 0)
    ELSE 0

replace_text(e, document_id, old_text, new_text, rs) ==
    LET requests_data ==
            [requests |-> <<[replaceAllText |->
                                [containsText |-> [text |-> old_text,
                                                   matchCase |-> FALSE],
                                 replaceText |-> new_text]]>>]
        r == make_api_request(e, "POST", BatchUpdateUrl(document_id),
                              [json |-> requests_data], rs[1])
        context == [document_id |-> document_id,
                    message |-> <<"Failed to replace text in document ", document_id>>]
        occurrences == Occurrences(Get(r.val.d, "replies", <<>>))
    IN  IF r.raised THEN Except(r.exc, context, <<r.entry>>)
        ELSE IF r.val.t # "dict" THEN Except(NoGet(r.val), context, <<r.entry>>)
        ELSE Returned([documentId |-> document_id,
                       message |-> <<"Successfully replaced ", ToString(occurrences),
                                     " occurrence(s) of '", old_text, "' with '",
                                     new_text, "'">>,
                       occurrences_changed |-> occurrences],
                      <<r.entry>>)

\* bold, italic, underline are "None", "True" or "False"
StyleNames == <<"bold", "italic", "underline">>

\* Mutant: `if bold:`, which takes False for unset.
SuppliedTruthy(value) == value = "True"

\* `if bold is not None:` and its two siblings
Supplied(value) == value # None

\* text_style, in insertion order: the names of the options supplied
StyleKeys(opts) == SelectSeq(StyleNames, LAMBDA k : Supplied(opts[k]))

format_text(e, document_id, start_index, end_index, opts, rs) ==
    LET keys == StyleKeys(opts)
        text_style == [k \in {keys[i] : i \in DOMAIN keys} |-> opts[k]]
        formatting_applied == [i \in DOMAIN keys |-> <<keys[i], "=", opts[keys[i]]>>]
        requests_data ==
            [requests |-> <<[updateTextStyle |->
                                [range |-> [startIndex |-> start_index,
                                            endIndex |-> end_index],
                                 textStyle |-> text_style,
                                 fields |-> Join(keys)]]>>]
        r == make_api_request(e, "POST", BatchUpdateUrl(document_id),
                              [json |-> requests_data], rs[1])
        context == [document_id |-> document_id,
                    message |-> <<"Failed to format text in document ", document_id>>]
    IN  IF DOMAIN text_style = {}
        THEN Returned([error |-> <<"No formatting options provided">>,
                       document_id |-> document_id,
                       message |-> <<"At least one formatting option (bold, italic, underline) must be specified">>],
                      <<>>)
        ELSE IF r.raised THEN Except(r.exc, context, <<r.entry>>)
        ELSE Returned([documentId |-> document_id,
                       message |-> <<"Successfully formatted text from index ",
                                     ToString(start_index), " to ",
                                     ToString(end_index)>>,
                       formatting_applied |-> formatting_applied],
                      <<r.entry>>)

insert_image(e, document_id, image_url, index, rs) ==
    LET requests_data ==
            [requests |-> <<[insertInlineImage |-> [location |-> [index |-> index],
                                                    uri |-> image_url]]>>]
        r == make_api_request(e, "POST", BatchUpdateUrl(document_id),
                              [json |-> requests_data], rs[1])
        context == [document_id |-> document_id,
                    message |-> <<"Failed to insert image into document ", document_id>>]
    IN  IF r.raised THEN Except(r.exc, context, <<r.entry>>)
        ELSE Returned([documentId |-> document_id,
                       message |-> <<"Successfully inserted image at position ",
                                     ToString(index)>>,
                       image_url |-> image_url],
                      <<r.entry>>)

\* mime_types.keys(), in the order of the literal
SupportedFormats == <<"pdf", "docx", "odt", "rtf", "txt", "html", "epub">>

mime_types ==
    [pdf |-> <<"application", "/", "pdf">>,
     docx |-> <<"application", "/",
                "vnd.openxmlformats-officedocument.wordprocessingml.document">>,
     odt |-> <<"application", "/", "vnd.oasis.opendocument.text">>,
     rtf |-> <<"application", "/", "rtf">>,
     txt |-> <<"text", "/", "plain">>,
     html |-> <<"text", "/", "html">>,
     epub |-> <<"application", "/", "epub+zip">>]

export_document(e, document_id, export_format, rs) ==
    LET mime_type == mime_types[export_format]
        r == make_api_request(e, "GET",
                              <<DRIVE_API_BASE, "/files/", document_id, "/export">>,
                              [params |-> [mimeType |-> mime_type]], rs[1])
        content_length == IF r.val.t = "bytes" THEN r.val.len ELSE 0
        context == [document_id |-> document_id,
                    message |-> <<"Failed to export document ", document_id>>]
    IN  IF export_format \notin DOMAIN mime_types
        THEN Returned([error |-> <<"Unsupported export format: ", export_format>>,
                       supported_formats |-> SupportedFormats,
                       message |-> <<"Format '", export_format, "' is not supported">>],
                      <<>>)
        ELSE IF r.raised THEN Except(r.exc, context, <<r.entry>>)
        ELSE Returned([documentId |-> document_id,
                       format |-> export_format,
                       content_length |-> content_length,
                       message |-> <<"Successfully exported document as ",
                                     export_format, " (", ToString(content_length),
                                     " bytes)">>,
                       download_info |-> "Export completed. Content available via Google Drive API."],
                      <<r.entry>>)

\* Mutant: the handler names the identifier documentId, as the success does.
delete_document_samekey(e, document_id, rs) ==
    LET r == make_api_request(e, "DELETE", <<DRIVE_API_BASE, "/files/", document_id>>,
                              EmptyDict, rs[1])
        context == [documentId |-> document_id,
                    message |-> <<"Failed to delete document ", document_id>>]
    IN  IF r.raised THEN Except(r.exc, context, <<r.entry>>)
        ELSE Returned([documentId |-> document_id,
                       message |-> <<"Successfully deleted document ", document_id>>],
                      <<r.entry>>)

delete_document(e, document_id, rs) ==
    LET r == make_api_request(e, "DELETE", <<DRIVE_API_BASE, "/files/", document_id>>,
                              EmptyDict, rs[1])
        context == [document_id |-> document_id,
                    message |-> <<"Failed to delete document ", document_id>>]
    IN  IF r.raised THEN Except(r.exc, context, <<r.entry>>)
        ELSE Returned([documentId |-> document_id,
                       message |-> <<"Successfully deleted document ", document_id>>],
                      <<r.entry>>)

----------------------------------------------------------------------------
(* Inputs: arguments of the tools and answers of the remote service *)

DocIds == {"doc1", "missing-id"}
Titles == {"Report"}
Texts == {"hello"}
ImageUrls == {"https://example.com/a.png"}
Indexes == 0..MaxIndex
Options == {None, "True", "False"}
ExportFormats == {SupportedFormats[i] : i \in DOMAIN SupportedFormats} \cup {"bogus", "PDF"}
MaxResults ==
    (-MaxOver..MaxOver) \cup {10}
        \cup ((MAX_PAGE_SIZE - MaxOver)..(MAX_PAGE_SIZE + MaxOver))

OkStatuses == {200, 204}
ErrStatuses == {404, 500}
JsonTypes == {CT_NONE, CT_JSON, CT_HTML}

\* a payload of n bytes that decodes to j; an empty payload decodes to nothing,
\* and a 204 answer has no payload
Payloads(jsons) ==
    {x \in OkStatuses \X (0..MaxLen) \X (jsons \cup {NotJson}) :
        /\ x[3] # NotJson => x[2] >= 1
        /\ x[1] = 204 => x[2] = 0}

Faults == {Fault("ConnectError")}
ErrResponses == {Http(s, CT_JSON_UTF8, "error body", MaxLen, NotJson) : s \in ErrStatuses}
OkResponses(ctypes, jsons) ==
    {Http(x[1][1], x[2], "", x[1][2], x[1][3]) : x \in Payloads(jsons) \X ctypes}
Responses(ctypes, jsons) == Faults \cup ErrResponses \cup OkResponses(ctypes, jsons)

Doc == [documentId |-> "doc1", title |-> "Report", body |-> "content"]
ListJsons ==
    {JNull, JDict(EmptyDict), JDict([files |-> <<>>]), JDict([files |-> <<"f1", "f2">>])}
DocJsons == {JNull, JDict(EmptyDict), JDict(Doc)}
CreateJsons == {JNull, JDict(EmptyDict), JDict([documentId |-> "doc1", title |-> "Report"])}
LinkJsons == {JNull, JDict(EmptyDict), JDict([webViewLink |-> "https://docs.google.com/doc1"])}
UpdateJsons == {JNull, JDict(EmptyDict), JDict([replies |-> <<EmptyDict>>])}

\* one reply of a batch update: no replaceAllText key, one without a count,
\* one with a count
Replies ==
    {EmptyDict, [replaceAllText |-> EmptyDict]}
        \cup {[replaceAllText |-> [occurrencesChanged |-> n]] : n \in 0..MaxOcc}
ReplyLists == {<<>>} \cup {<<a>> : a \in Replies} \cup {<<a, b>> : a \in Replies, b \in Replies}
ReplaceJsons == {JNull, JDict(EmptyDict)} \cup {JDict([replies |-> l]) : l \in ReplyLists}
ExportJsons == {JNumber}
ExportTypes(export_format) ==
    {CT_NONE, CT_JSON_UTF8}
        \cup (IF export_format \in DOMAIN mime_types THEN {mime_types[export_format]} ELSE {})

----------------------------------------------------------------------------
(* The state machine: the server (mcp.run) waits for a request, runs the    *)
(* tool it names to completion (one action per tool) and sends the result  *)
(* back; nothing but the environment outlives the invocation.              *)

Init ==
    /\ env \in Envs
    /\ tool = "none"
    /\ args = EmptyDict
    /\ resps = <<>>
    /\ result = EmptyDict
    /\ raised = FALSE
    /\ execLog = <<>>

Invoke(name, a, rs, out) ==
    /\ tool' = name
    /\ args' = a
    /\ resps' = rs
    /\ result' = out.value
    /\ raised' = out.raised
    /\ execLog' = out.log
    /\ UNCHANGED env

ListDocuments ==
    /\ tool = "none"
    /\ \E n \in MaxResults, r \in Responses(JsonTypes, ListJsons) :
        Invoke("list_documents", [max_results |-> n], <<r>>,
               list_documents(env, n, <<r>>))

GetDocument ==
    /\ tool = "none"
    /\ \E id \in DocIds, r \in Responses(JsonTypes, DocJsons) :
        Invoke("get_document", [document_id |-> id], <<r>>,
               get_document(env, id, <<r>>))

CreateDocument ==
    /\ tool = "none"
    /\ \E t \in Titles, r1 \in Responses(JsonTypes, CreateJsons),
       r2 \in Responses(JsonTypes, LinkJsons) :
        Invoke("create_document", [title |-> t], <<r1, r2>>,
               create_document(env, t, <<r1, r2>>))

InsertText ==
    /\ tool = "none"
    /\ \E id \in DocIds, t \in Texts, i \in Indexes, r \in Responses(JsonTypes, UpdateJsons) :
        Invoke("insert_text", [document_id |-> id, text |-> t, index |-> i], <<r>>,
               insert_text(env, id, t, i, <<r>>))

ReplaceText ==
    /\ tool = "none"
    /\ \E id \in DocIds, o \in Texts, n \in Texts, r \in Responses(JsonTypes, ReplaceJsons) :
        Invoke("replace_text", [document_id |-> id, old_text |-> o, new_text |-> n],
               <<r>>, replace_text(env, id, o, n, <<r>>))

FormatText ==
    /\ tool = "none"
    /\ \E id \in DocIds, s \in Indexes, t \in Indexes,
       opts \in [{"bold", "italic", "underline"} -> Options],
       r \in Responses(JsonTypes, {JDict(EmptyDict)}) :
        Invoke("format_text",
               [document_id |-> id, start_index |-> s, end_index |-> t,
                bold |-> opts.bold, italic |-> opts.italic, underline |-> opts.underline],
               <<r>>, format_text(env, id, s, t, opts, <<r>>))

InsertImage ==
    /\ tool = "none"
    /\ \E id \in DocIds, u \in ImageUrls, i \in Indexes,
       r \in Responses(JsonTypes, {JDict(EmptyDict)}) :
        Invoke("insert_image", [document_id |-> id, image_url |-> u, index |-> i],
               <<r>>, insert_image(env, id, u, i, <<r>>))

ExportDocument ==
    /\ tool = "none"
    /\ \E id \in DocIds, f \in ExportFormats :
        \E r \in Responses(ExportTypes(f), ExportJsons) :
            Invoke("export_document", [document_id |-> id, export_format |-> f],
                   <<r>>, export_document(env, id, f, <<r>>))

DeleteDocument ==
    /\ tool = "none"
    /\ \E id \in DocIds, r \in Responses(JsonTypes, {JDict(EmptyDict)}) :
        Invoke("delete_document", [document_id |-> id], <<r>>,
               delete_document(env, id, <<r>>))

\* the result is handed to the caller and the invocation's values are dropped
Respond ==
    /\ tool # "none"
    /\ tool' = "none"
    /\ args' = EmptyDict
    /\ resps' = <<>>
    /\ result' = EmptyDict
    /\ raised' = FALSE
    /\ execLog' = <<>>
    /\ UNCHANGED env

Next ==
    \/ Respond
    \/ ListDocuments
    \/ GetDocument
    \/ CreateDocument
    \/ InsertText
    \/ ReplaceText
    \/ FormatText
    \/ InsertImage
    \/ ExportDocument
    \/ DeleteDocument

Spec == Init /\ [][Next]_vars

----------------------------------------------------------------------------
(* Vocabulary of the properties *)

Invoked == tool # "none"
IsError == "error" \in DOMAIN result
CredentialPresent == TOKEN_VAR \in DOMAIN env /\ env[TOKEN_VAR] # ""

\* outbound network calls of the invocation
RECURSIVE SentCalls(_)
SentCalls(log) == IF log = <<>> THEN 0 ELSE log[1].sent + SentCalls(Tail(log))

\* the i-th invocation of the executor, evaluated again on its logged request
Executed(i) ==
    make_api_request(env, execLog[i].method, execLog[i].url, execLog[i].kwargs, resps[i])

Answered2xx(i) == resps[i].kind = "http" /\ is_success(resps[i].status)
AnsweredNon2xx(i) == resps[i].kind = "http" /\ ~is_success(resps[i].status)

\* the documented fields of each tool's success result, `message` aside
SuccessFields(t) ==
    CASE t = "list_documents" -> {"files", "count"}
      [] t = "get_document" -> {"documentId", "title", "body"}
      [] t = "create_document" -> {"documentId", "title", "webViewLink"}
      [] t = "insert_text" -> {"documentId", "replies"}
      [] t = "replace_text" -> {"documentId", "occurrences_changed"}
      [] t = "format_text" -> {"documentId", "formatting_applied"}
      [] t = "insert_image" -> {"documentId", "image_url"}
      [] t = "export_document" ->
            {"documentId", "format", "content_length", "download_info"}
      [] t = "delete_document" -> {"documentId"}

PrimaryFields(t) == IF t = "list_documents" THEN {"files"} ELSE {"documentId"}

IsSuccess == ~raised /\ ~IsError /\ DOMAIN result = SuccessFields(tool) \cup {"message"}

Contains(text, part) == \E i \in DOMAIN text : text[i] = part

\* the three failure classes of the executor, for its i-th invocation
FailureClass(i) ==
    IF execLog[i].sent = 0 THEN "configuration"
    ELSE IF AnsweredNon2xx(i) THEN "remote"
    ELSE "request"

FailureHead(class) ==
    CASE class = "configuration" -> "Missing GOOGLE_ACCESS_TOKEN environment variable. "
      [] class = "remote" -> "Google API error "
      [] class = "request" -> "Request failed: "

----------------------------------------------------------------------------
(* C1 *)

\* C1: whatever the tool, its arguments and the outcome of its remote calls,
\* the tool returns a mapping with a `message` field and with exactly one of
\* its primary success field (documentId; files for list_documents) and an
\* `error` field.
C1_UniformEnvelope ==
    Invoked =>
        /\ ~raised
        /\ "message" \in DOMAIN result
        /\ (PrimaryFields(tool) \subseteq DOMAIN result) # IsError
        /\ IsError => DOMAIN result \cap PrimaryFields(tool) = {}

\* an export whose remote call was made and failed
C1_Witness ==
    /\ tool = "export_document"
    /\ Len(execLog) = 1 /\ execLog[1].sent = 1 /\ ~execLog[1].ok
    /\ IsError

----------------------------------------------------------------------------
(* C2 *)

\* C2: when an invocation of the executor fails, by a missing or empty
\* credential, a non-2xx status, or a transport fault or undecodable body, at
\* the first or the second call of the tool, the tool returns the error
\* variant, whose `error` is the text of that failure, and raises nothing.
C2_FailuresBecomeEnvelopes ==
    \A i \in DOMAIN execLog :
        ~execLog[i].ok =>
            /\ ~raised
            /\ IsError
            /\ "message" \in DOMAIN result
            /\ result.error = Executed(i).exc.text
            /\ result.error[1] = FailureHead(FailureClass(i))

\* the credential is missing at delete_document's call
C2_Witness ==
    /\ tool = "delete_document"
    /\ Len(execLog) = 1 /\ ~execLog[1].ok
    /\ FailureClass(1) = "configuration"
    /\ IsError

----------------------------------------------------------------------------
(* C3 *)

\* the answers the claim names: a JSON object served as application/json, and
\* an empty body for a DELETE
NamedAnswer(i) ==
    /\ Answered2xx(i)
    /\ \/ resps[i].json.t = "dict" /\ resps[i].ctype = CT_JSON
       \/ execLog[i].method = "DELETE" /\ resps[i].len = 0

\* C3: a tool other than export_document, with a credential and valid
\* arguments, whose every remote call is answered 2xx (with a JSON object
\* served as application/json, or with an empty body for a DELETE) returns
\* the success variant with its documented fields.
C3_SuccessOn2xx ==
    ( /\ Invoked /\ tool # "export_document"
      /\ CredentialPresent
      /\ execLog # <<>>
      /\ \A i \in DOMAIN execLog : NamedAnswer(i) )
    => IsSuccess

----------------------------------------------------------------------------
(* C4 *)

\* C4: create_document calls POST /documents first and GET /files/<id>
\* second, the GET only after the POST returned; when the POST returns and the
\* GET fails the result has exactly error, title and message, and the log of
\* calls holds the POST and the GET and nothing else (no delete).
C4_CreateThenFetch ==
    tool = "create_document" =>
        /\ Len(execLog) \in {1, 2}
        /\ execLog[1].method = "POST"
        /\ execLog[1].url = <<DOCS_API_BASE, "/documents">>
        /\ Len(execLog) = 2 =>
              /\ execLog[1].ok /\ execLog[1].sent = 1
              /\ execLog[2].method = "GET"
              /\ execLog[2].url[1] = DRIVE_API_BASE
        /\ (Len(execLog) = 2 /\ ~execLog[2].ok) =>
              /\ ~raised
              /\ DOMAIN result = {"error", "title", "message"}
              /\ result.title = args.title
              /\ \A i \in DOMAIN execLog : execLog[i].method # "DELETE"

\* the POST was answered 2xx and the GET 404
C4_Witness ==
    /\ tool = "create_document"
    /\ Len(execLog) = 2
    /\ execLog[1].ok /\ execLog[2].sent = 1 /\ AnsweredNon2xx(2)
    /\ IsError

----------------------------------------------------------------------------
(* C5 *)

\* C5 as claimed: every invocation of the executor makes exactly one outbound
\* call, whatever its outcome.
C5_ExactlyOneCall == \A i \in DOMAIN execLog : execLog[i].sent = 1

\* C5, amended: every invocation of the executor makes at most one outbound
\* call: one when the credential is present, none when it is missing or empty;
\* a failed invocation is the tool's last. So a tool invocation that reaches
\* the executor with a credential makes one outbound call, or two for a
\* create_document whose first call returns a JSON object.
C5_AtMostOneCall ==
    /\ \A i \in DOMAIN execLog :
          /\ execLog[i].sent = (IF CredentialPresent THEN 1 ELSE 0)
          /\ ~execLog[i].ok => i = Len(execLog)
    /\ (CredentialPresent /\ execLog # <<>>) =>
          SentCalls(execLog) =
              (IF tool = "create_document" /\ Executed(1).val.t = "dict"
               THEN 2 ELSE 1)

\* a call that met a transport fault, made once
C5_Witness ==
    /\ tool = "get_document"
    /\ Len(execLog) = 1 /\ execLog[1].sent = 1
    /\ resps[1].kind = "fault"

----------------------------------------------------------------------------
(* C6 *)

Unset(a) == a.bold = None /\ a.italic = None /\ a.underline = None
SetFalse(a) == a.bold = "False" \/ a.italic = "False" \/ a.underline = "False"

----------------------------------------------------------------------------
(* C7 *)

\* C7: export_document with a supported format, whose call is answered 2xx
\* with a payload in the MIME type requested for the format, returns the
\* success variant with content_length the byte length of the payload.
C7_ExportLength ==
    ( /\ tool = "export_document"
      /\ args.export_format \in {"pdf", "docx", "odt", "rtf", "txt", "html", "epub"}
      /\ CredentialPresent
      /\ Answered2xx(1)
      /\ resps[1].ctype = mime_types[args.export_format] )
    => /\ IsSuccess
       /\ result.content_length = resps[1].len

----------------------------------------------------------------------------
(* C8 *)

PageSizeSent == execLog[1].kwargs.params.pageSize

\* C8: list_documents(max_results=N) sends page size 1000, and returns what
\* list_documents(max_results=1000) returns, when N > 1000; sends N when
\* 1 <= N <= 1000; and never sends a negative page size when N <= 0.
C8_PageSizeClamped ==
    (tool = "list_documents" /\ execLog[1].sent = 1) =>
        LET N == args.max_results
        IN  /\ N > 1000 =>
                  /\ PageSizeSent = 1000
                  /\ list_documents(env, 1000, resps) =
                        [raised |-> raised, value |-> result, log |-> execLog]
            /\ (1 <= N /\ N <= 1000) => PageSizeSent = N
            /\ N <= 0 => PageSizeSent >= 0

----------------------------------------------------------------------------
(* C9 *)

TakesDocumentId == {"get_document", "insert_text", "replace_text", "format_text",
                    "insert_image", "export_document", "delete_document"}

\* the call that was answered with a non-2xx status is the last one made
RemoteFailure ==
    /\ Invoked /\ execLog # <<>>
    /\ execLog[Len(execLog)].sent = 1
    /\ AnsweredNon2xx(Len(execLog))

ReportsStatus ==
    /\ ~raised /\ IsError
    /\ Contains(result.error, ToString(resps[Len(execLog)].status))
    /\ Contains(result.error, resps[Len(execLog)].text)

\* C9 as claimed: on a non-2xx answer every tool's error envelope holds the
\* status and the body text in `error`, the identifier under `document_id`,
\* and none of the tool's success fields.
C9_AllToolsCarryDocumentId ==
    RemoteFailure =>
        /\ ReportsStatus
        /\ "document_id" \in DOMAIN result
        /\ DOMAIN result \cap SuccessFields(tool) = {}

\* C9, amended: on a non-2xx answer the error envelope's `error` holds the
\* status and the body text; for the seven tools that take a document_id the
\* envelope is exactly error, document_id (the argument) and message;
\* list_documents' is error and message; create_document's is error, title
\* (the argument) and message.
C9_RemoteErrorEnvelope ==
    RemoteFailure =>
        /\ ReportsStatus
        /\ tool \in TakesDocumentId =>
              /\ DOMAIN result = {"error", "document_id", "message"}
              /\ result.document_id = args.document_id
        /\ tool = "list_documents" => DOMAIN result = {"error", "message"}
        /\ tool = "create_document" =>
              /\ DOMAIN result = {"error", "title", "message"}
              /\ result.title = args.title

\* get_document("missing-id") answered 404
C9_Witness ==
    /\ tool = "get_document" /\ args.document_id = "missing-id"
    /\ RemoteFailure /\ resps[1].status = 404
    /\ Contains(result.error, "404")
    /\ result.document_id = "missing-id"
    /\ DOMAIN result \cap {"documentId", "title", "body"} = {}

----------------------------------------------------------------------------
(* C10 *)

\* the count the claim names, read off the decoded reply d
ClaimedCount(d) ==
    IF \/ "replies" \notin DOMAIN d
       \/ d.replies = <<>>
       \/ "replaceAllText" \notin DOMAIN d.replies[1]
       \/ "occurrencesChanged" \notin DOMAIN d.replies[1].replaceAllText
    THEN 0
    ELSE d.replies[1].replaceAllText.occurrencesChanged

====
